---- MODULE Spec2Model ----
(***************************************************************************)
(* Aldo: work-hours ledger and invoice lifecycle.                          *)
(*                                                                         *)
(* The state is the in-memory ledger of aldo.storage.WorkHoursStorage       *)
(* (aldo_data), the invoice counter of aldo.config.Config and the outcome  *)
(* of the last call.  The actions are the ledger's mutating methods         *)
(* (log_work through the CLI log command, store_unconfirmed_invoice,        *)
(* confirm_invoice) and the CLI commands of aldo.core (generate-invoice,    *)
(* confirm).                                                                *)
(*                                                                         *)
(* Every mutating method of the ledger ends in save_data, which rewrites    *)
(* aldo_data.json; data_file is the content of that file and pc the         *)
(* position of the process inside a call that is taken step by step.        *)
(*                                                                         *)
(* Dates are day ordinals: the code keeps them as zero-padded ISO strings   *)
(* 'YYYY-MM-DD', whose lexicographic order is the calendar order, and       *)
(* timedelta(days=k) is +k.  Invoice-number strings are sequences of        *)
(* one-character strings, so that str(), int() and the zero-padded display  *)
(* form are computed, not assumed to agree.                                 *)
(***************************************************************************)
EXTENDS Integers, Sequences, FiniteSets, TLC

\* ---------------------------------------------------------------- bounds
MaxDate == 2
MaxHours == 1
MaxInvoices == 1
MaxRenders == 1
\* the invoice counter is followed up to this value
MaxNextNumber == 10020
\* the significant bits of a float in the model
MantissaBits == 3
\* the longest list get_total_hours is given
MaxTerms == 3
\* the days of December among the model's dates: day DecemberDays is the
\* 31st of December, the day after it the 1st of January
DecemberDays == 1
\* the numbers issued in a run that sets end dates
MaxIssues == 5

\* ------------------------------------------------------ program constants
BaseNumber == 391
StorageStep == 10
ConfigStep == 10
LegacyConfigStep == 1
LegacyDefaultNextNumber == 1
DefaultNextNumber == 1000
PadWidth == 4
LookAheadDays == 7
prefix == <<"I", "N", "V", "-">>

Dates == 1..MaxDate
HoursInputs == 0..MaxHours
\* hours for the calls that are compared with one another: two that are
\* positive at the least
LogHoursInputs == 0..(MaxHours + 1)
\* the DESCRIPTION argument: left out, or a text
NoDescription == ""
DescriptionInputs == {NoDescription, "a"}
\* the base number and the MaxInvoices numbers that follow it
Numbers == {BaseNumber + StorageStep * k : k \in 0..MaxInvoices}
\* the first MaxInvoices of them
FirstNumbers == {BaseNumber + StorageStep * k : k \in 0..(MaxInvoices - 1)}

\* ------------------------------------------------------- python strings
DigitChars == <<"0", "1", "2", "3", "4", "5", "6", "7", "8", "9">>

IsDigit(c) == \E i \in 1..10 : DigitChars[i] = c

DigitVal(c) == (CHOOSE i \in 1..10 : DigitChars[i] = c) - 1

RECURSIVE IntToStr(_)
\* str(n) for n >= 0: decimal digits, no leading zeros
IntToStr(n) ==
    IF n < 10 THEN <<DigitChars[n + 1]>>
    ELSE Append(IntToStr(n \div 10), DigitChars[(n % 10) + 1])

RECURSIVE ZeroPad(_, _)
ZeroPad(s, w) == IF Len(s) >= w THEN s ELSE ZeroPad(<<"0">> \o s, w)

\* f"{n:04d}"
Pad4(n) == ZeroPad(IntToStr(n), PadWidth)

\* f"{prefix}{n}", without the field width
DisplayFormUnpadded(n) == prefix \o IntToStr(n)

\* f"{prefix}{n:04d}"
DisplayForm(n) == prefix \o Pad4(n)

StartsWith(s, p) == Len(s) >= Len(p) /\ SubSeq(s, 1, Len(p)) = p

StripPrefix(s, p) == SubSeq(s, Len(p) + 1, Len(s))

\* int(s) succeeds on a non-empty string of decimal digits
IntParses(s) == Len(s) > 0 /\ \A i \in 1..Len(s) : IsDigit(s[i])

RECURSIVE StrToInt(_)
StrToInt(s) ==
    IF Len(s) = 0 THEN 0
    ELSE 10 * StrToInt(SubSeq(s, 1, Len(s) - 1)) + DigitVal(s[Len(s)])

\* a python argument that is an int or a str
PyInt(n) == [kind |-> "int", n |-> n, s |-> <<>>]
PyStr(s) == [kind |-> "str", n |-> 0, s |-> s]

\* str(v)
PyToStr(v) == IF v.kind = "int" THEN IntToStr(v.n) ELSE v.s

\* None and a present value
None == <<>>
Some(r) == <<r>>

\* ------------------------------------------------------------------ state
VARIABLES
    work_entries,               \* aldo_data['work_entries']: list of entries
    last_confirmed_invoice,     \* aldo_data['last_confirmed_invoice']
    last_unconfirmed_invoice,   \* aldo_data['last_unconfirmed_invoice']
    confirmed_invoices,         \* aldo_data['confirmed_invoices']: id -> record
    next_number,                \* config['invoice']['next_number']
    result,                     \* what the last call did: [op, status, n]
    data_file,                  \* the content of aldo_data.json
    pc,                         \* where the process is inside a call
    issued_number,              \* what Config.get_next_invoice_number returned last
    config_file,                \* the next_number held by config.json
    last_confirmation           \* the config's last confirmed number and date

vars == <<work_entries, last_confirmed_invoice, last_unconfirmed_invoice,
          confirmed_invoices, next_number, result, data_file, pc,
          issued_number, config_file, last_confirmation>>

ledger == <<work_entries, last_confirmed_invoice, last_unconfirmed_invoice,
            confirmed_invoices>>

InvoiceRecord(number, start, end) ==
    [invoice_number |-> number, start_date |-> start, end_date |-> end]

\* op: the call; status: how it ended; n: the invoice number it was given
\* (0 when it was given none, or none that parses)
Outcome(op, status, n) == [op |-> op, status |-> status, n |-> n]

\* self.aldo_data, the document json.dump writes
aldo_data ==
    [work_entries |-> work_entries,
     last_confirmed_invoice |-> last_confirmed_invoice,
     last_unconfirmed_invoice |-> last_unconfirmed_invoice,
     confirmed_invoices |-> confirmed_invoices]

\* the default structure of WorkHoursStorage.__init__
DefaultData ==
    [work_entries |-> <<>>,
     last_confirmed_invoice |-> None,
     last_unconfirmed_invoice |-> None,
     confirmed_invoices |-> <<>>]

\* a file holding a whole document, and the file open(data_file, 'w') leaves
\* until the dump is flushed: cut to nothing, no document
Complete(data) == [kind |-> "complete", data |-> data]
Truncated == [kind |-> "truncated", data |-> DefaultData]
\* the data directory without the file, and no data directory
Absent == [kind |-> "absent", data |-> DefaultData]
NoDirectory == [kind |-> "no_directory", data |-> DefaultData]

\* WorkHoursStorage.save_data, run to its end
save_data == data_file' = Complete(aldo_data')

\* Config.save_config, run to its end
save_config == config_file' = next_number'

\* a first start: ensure_storage_exists writes the default structure
Init ==
    /\ work_entries = <<>>
    /\ last_confirmed_invoice = None
    /\ last_unconfirmed_invoice = None
    /\ confirmed_invoices = <<>>
    /\ next_number = DefaultNextNumber
    /\ result = Outcome("init", "ok", 0)
    /\ data_file = Complete(DefaultData)
    /\ pc = "idle"
    /\ issued_number = None
    /\ config_file = next_number
    /\ last_confirmation = None

\* --------------------------------------------------------- work entries
\* the entries of the list whose date is not d, in list order
WithoutDate(entries, d) == SelectSeq(entries, LAMBDA e : e.date # d)

\* a log_work that appends and drops nothing
LogWorkEntriesKeepingOld(entries, d, h, description) ==
    Append(entries, [date |-> d, hours |-> h, description |-> description])

\* WorkHoursStorage.log_work: drop every entry of the date, append the new one
LogWorkEntries(entries, d, h, description) ==
    Append(WithoutDate(entries, d),
           [date |-> d, hours |-> h, description |-> description])

RECURSIVE InsertByDate(_, _)
\* insert e behind every entry whose date is not later (sorted() is stable)
InsertByDate(sorted, e) ==
    IF sorted = <<>> THEN <<e>>
    ELSE IF Head(sorted).date <= e.date
         THEN <<Head(sorted)>> \o InsertByDate(Tail(sorted), e)
         ELSE <<e>> \o sorted

RECURSIVE SortByDate(_)
SortByDate(entries) ==
    IF entries = <<>> THEN <<>>
    ELSE InsertByDate(SortByDate(SubSeq(entries, 1, Len(entries) - 1)),
                      entries[Len(entries)])

\* a range that leaves its last day out
get_work_entries_before_end(entries, start, end) ==
    SortByDate(SelectSeq(entries, LAMBDA e : start <= e.date /\ e.date < end))

\* WorkHoursStorage.get_work_entries
get_work_entries(entries, start, end) ==
    SortByDate(SelectSeq(entries, LAMBDA e : start <= e.date /\ e.date <= end))

\* Hours are Python floats.  A float keeps MantissaBits significant bits; the
\* model counts hours in units of the last bit of the smallest amount, so a
\* value is an integer and is a float when it fits MantissaBits bits after
\* its trailing zero bits are dropped.
RECURSIVE Pow2(_)
Pow2(k) == IF k = 0 THEN 1 ELSE 2 * Pow2(k - 1)

\* the number of low bits a value has beyond MantissaBits
RECURSIVE ExcessBits(_)
ExcessBits(n) == IF n < Pow2(MantissaBits) THEN 0 ELSE 1 + ExcessBits(n \div 2)

\* the float nearest to n, the even one of two that are equally near
FloatRound(n) ==
    LET unit == Pow2(ExcessBits(n))
        q == n \div unit
        r == n % unit
    IN  IF 2 * r > unit \/ (2 * r = unit /\ q % 2 = 1)
        THEN (q + 1) * unit
        ELSE q * unit

\* a + b on floats
FloatAdd(a, b) == FloatRound(a + b)

\* sum(...): the additions are made one by one from the left, from 0
RECURSIVE SumFrom(_, _)
SumFrom(total, entries) ==
    IF entries = <<>> THEN total
    ELSE SumFrom(FloatAdd(total, Head(entries).hours), Tail(entries))

\* WorkHoursStorage.get_total_hours
get_total_hours(entries) == SumFrom(0, entries)

\* min(entries, key=date): the entries are passed once from the left and a
\* later entry replaces the best one only when its date is smaller
RECURSIVE MinByDate(_, _)
MinByDate(best, rest) ==
    IF rest = <<>> THEN best
    ELSE MinByDate(IF Head(rest).date < best.date THEN Head(rest) ELSE best,
                   Tail(rest))

\* the date of the entry that was stored first
get_earliest_entry_date_first(entries) ==
    IF entries = <<>> THEN None ELSE Some(Head(entries).date)

\* WorkHoursStorage.get_earliest_entry_date: None on an empty ledger
get_earliest_entry_date(entries) ==
    IF entries = <<>> THEN None
    ELSE Some(MinByDate(Head(entries), Tail(entries)).date)

\* ------------------------------------------------------ invoice numbers
\* the prefix-or-int parse shared by confirm_invoice and get_invoice_by_number:
\* "int" with the number, "raise" when int() fails behind the prefix (the
\* ValueError is not caught there), "none" when int() fails without prefix
ParseInvoiceNumber(v) ==
    IF v.kind = "str" /\ StartsWith(v.s, prefix)
    THEN IF IntParses(StripPrefix(v.s, prefix))
         THEN [status |-> "int", n |-> StrToInt(StripPrefix(v.s, prefix))]
         ELSE [status |-> "raise", n |-> 0]
    ELSE IF v.kind = "int" THEN [status |-> "int", n |-> v.n]
    ELSE IF IntParses(v.s) THEN [status |-> "int", n |-> StrToInt(v.s)]
    ELSE [status |-> "none", n |-> 0]

\* the integer an invoice-number argument denotes, 0 when it denotes none
NumberGiven(v) ==
    IF ParseInvoiceNumber(v).status = "int" THEN ParseInvoiceNumber(v).n ELSE 0

\* WorkHoursStorage.get_next_invoice_number
get_next_invoice_number ==
    IF last_confirmed_invoice # None
    THEN StrToInt(last_confirmed_invoice[1].invoice_number) + StorageStep
    ELSE BaseNumber

\* the numeric part store_unconfirmed_invoice keeps for its argument
NumericPart(v, with_config) ==
    IF with_config /\ v.kind = "str" /\ StartsWith(v.s, prefix)
    THEN StripPrefix(v.s, prefix)
    ELSE PyToStr(v)

\* WorkHoursStorage.get_last_unconfirmed_invoice
get_last_unconfirmed_invoice == last_unconfirmed_invoice

\* WorkHoursStorage.get_last_confirmed_invoice
get_last_confirmed_invoice == last_confirmed_invoice

\* a lookup that also answers with the pending draft
get_invoice_by_number_or_draft(v) ==
    LET p == ParseInvoiceNumber(v) IN
    IF p.status # "int" THEN None
    ELSE IF IntToStr(p.n) \in DOMAIN confirmed_invoices
         THEN Some(confirmed_invoices[IntToStr(p.n)])
    ELSE IF last_unconfirmed_invoice # None
            /\ last_unconfirmed_invoice[1].invoice_number = IntToStr(p.n)
         THEN last_unconfirmed_invoice
    ELSE None

\* WorkHoursStorage.get_invoice_by_number: the confirmed record or None
get_invoice_by_number(v) ==
    LET p == ParseInvoiceNumber(v) IN
    IF p.status # "int" THEN None
    ELSE IF IntToStr(p.n) \notin DOMAIN confirmed_invoices THEN None
    ELSE Some(confirmed_invoices[IntToStr(p.n)])

\* --------------------------------------------------------------- inputs
\* what a caller passes as an invoice number: the int, its decimal string,
\* the display form Config.get_next_invoice_number formats, and a string
\* that is no number
StoreNumberInputs(numbers) ==
    {PyInt(n) : n \in numbers} \cup {PyStr(DisplayForm(n)) : n \in numbers}

ConfirmNumberInputs ==
    {PyInt(n) : n \in Numbers}
        \cup {PyStr(IntToStr(n)) : n \in Numbers}
        \cup {PyStr(DisplayForm(n)) : n \in Numbers}
        \cup {PyStr(<<"x">>)}

\* the INVOICE_OR_END_DATE argument of generate-invoice: absent, a date text,
\* or any other text
NoArg == [kind |-> "none", d |-> 0, s |-> <<>>]
DateArg(d) == [kind |-> "date", d |-> d, s |-> <<>>]
TextArg(s) == [kind |-> "text", d |-> 0, s |-> s]

GenerateArgs ==
    {NoArg} \cup {DateArg(d) : d \in Dates}
        \cup {TextArg(IntToStr(n)) : n \in Numbers}
        \cup {TextArg(DisplayForm(n)) : n \in Numbers}
        \cup {TextArg(<<"x">>)}

\* -------------------------------------------------- ledger: mutations
\* the outcome of WorkHoursStorage.confirm_invoice(v, config) in this state
ConfirmStatus(v) ==
    IF last_unconfirmed_invoice = None THEN "no_draft"
    ELSE LET p == ParseInvoiceNumber(v) IN
         IF p.status = "raise" THEN "value_error"
         ELSE IF p.status = "none" THEN "false"
         ELSE IF IntToStr(p.n) # last_unconfirmed_invoice[1].invoice_number
              THEN "mismatch"
              ELSE "ok"

\* a record that takes its end date from the wrong field of the draft
ConfirmedRecordWrongEnd(v) ==
    InvoiceRecord(IntToStr(ParseInvoiceNumber(v).n),
                  last_unconfirmed_invoice[1].start_date,
                  last_unconfirmed_invoice[1].start_date)

\* the record confirm_invoice builds from its argument and the draft
ConfirmedRecord(v) ==
    InvoiceRecord(IntToStr(ParseInvoiceNumber(v).n),
                  last_unconfirmed_invoice[1].start_date,
                  last_unconfirmed_invoice[1].end_date)

\* confirmed_invoices[id] = record
PutInvoice(invoices, id, record) ==
    [k \in (DOMAIN invoices) \cup {id} |-> IF k = id THEN record ELSE invoices[k]]

\* WorkHoursStorage.store_unconfirmed_invoice(v, start, end, config)
store_unconfirmed_invoice(v, start, end, with_config) ==
    /\ last_unconfirmed_invoice' =
           Some(InvoiceRecord(NumericPart(v, with_config), start, end))
    /\ result' = Outcome("store_unconfirmed_invoice", "ok", 0)
    /\ UNCHANGED <<work_entries, last_confirmed_invoice, confirmed_invoices,
                   next_number, issued_number, config_file, last_confirmation, pc>>
    /\ save_data

\* a confirm_invoice that leaves the draft in its slot
confirm_invoice_keeps_draft(v) ==
    /\ result' = Outcome("confirm_invoice", ConfirmStatus(v), NumberGiven(v))
    /\ IF ConfirmStatus(v) = "ok"
       THEN /\ confirmed_invoices' =
                   PutInvoice(confirmed_invoices,
                              ConfirmedRecord(v).invoice_number,
                              ConfirmedRecord(v))
            /\ last_confirmed_invoice' = Some(ConfirmedRecord(v))
       ELSE UNCHANGED <<confirmed_invoices, last_confirmed_invoice>>
    /\ UNCHANGED <<work_entries, next_number, issued_number, config_file, last_confirmation, last_unconfirmed_invoice, pc>>
    /\ IF ConfirmStatus(v) = "ok" THEN save_data ELSE UNCHANGED data_file

\* WorkHoursStorage.confirm_invoice(v, config)
confirm_invoice(v) ==
    /\ result' = Outcome("confirm_invoice", ConfirmStatus(v), NumberGiven(v))
    /\ IF ConfirmStatus(v) = "ok"
       THEN /\ confirmed_invoices' =
                   PutInvoice(confirmed_invoices,
                              ConfirmedRecord(v).invoice_number,
                              ConfirmedRecord(v))
            /\ last_confirmed_invoice' = Some(ConfirmedRecord(v))
            /\ last_unconfirmed_invoice' = None
       ELSE UNCHANGED <<confirmed_invoices, last_confirmed_invoice,
                        last_unconfirmed_invoice>>
    /\ UNCHANGED <<work_entries, next_number, issued_number, config_file, last_confirmation, pc>>
    /\ IF ConfirmStatus(v) = "ok" THEN save_data ELSE UNCHANGED data_file

\* log_work prints a notice for every entry it replaces
LogStatus(d) ==
    IF \E i \in 1..Len(work_entries) : work_entries[i].date = d
    THEN "replaced" ELSE "ok"

\* a log_work that drops the pending draft
log_work_clearing_draft(d, h, description) ==
    /\ work_entries' = LogWorkEntries(work_entries, d, h, description)
    /\ last_unconfirmed_invoice' = None
    /\ result' = Outcome("log_work", LogStatus(d), 0)
    /\ UNCHANGED <<last_confirmed_invoice, confirmed_invoices, next_number,
                   issued_number, config_file, last_confirmation, pc>>
    /\ save_data

\* WorkHoursStorage.log_work(date, hours, description), called directly
log_work(d, h, description) ==
    /\ work_entries' = LogWorkEntries(work_entries, d, h, description)
    /\ result' = Outcome("log_work", LogStatus(d), 0)
    /\ UNCHANGED <<last_confirmed_invoice, last_unconfirmed_invoice,
                   confirmed_invoices, next_number, issued_number, config_file, last_confirmation, pc>>
    /\ save_data

\* ------------------------------------------------------- CLI commands
\* core.log_work behind validate_hours
cli_log_work(d, h, description) ==
    IF h <= 0
    THEN /\ result' = Outcome("log", "bad_parameter", 0)
         /\ UNCHANGED <<ledger, next_number, issued_number, config_file, last_confirmation, data_file, pc>>
    ELSE /\ work_entries' = LogWorkEntries(work_entries, d, h, description)
         /\ result' = Outcome("log", LogStatus(d), 0)
         /\ UNCHANGED <<last_confirmed_invoice, last_unconfirmed_invoice,
                        confirmed_invoices, next_number, issued_number, config_file, last_confirmation, pc>>
         /\ save_data

\* the log form of the web application (main.log_work): hours that are not
\* positive are answered with an error message, anything else is logged
web_log_work(d, h, description) ==
    IF h <= 0
    THEN /\ result' = Outcome("web_log", "validation_error", 0)
         /\ UNCHANGED <<ledger, next_number, issued_number, config_file, last_confirmation, data_file, pc>>
    ELSE /\ work_entries' = LogWorkEntries(work_entries, d, h, description)
         /\ result' = Outcome("web_log", LogStatus(d), 0)
         /\ UNCHANGED <<last_confirmed_invoice, last_unconfirmed_invoice,
                        confirmed_invoices, next_number, issued_number, config_file, last_confirmation, pc>>
         /\ save_data

\* generate-invoice: is the argument an invoice number?
IsInvoiceNumber(arg) ==
    arg.kind = "text" /\ ParseInvoiceNumber(PyStr(arg.s)).status = "int"

\* a generate-invoice that asks for the number without looking for entries
NewInvoicePeriodUnchecked(arg, today) ==
    LET requested == IF arg.kind = "none" THEN today ELSE arg.d IN
    IF last_confirmed_invoice # None
    THEN LET start == last_confirmed_invoice[1].end_date + 1
             end == IF start >= today THEN start + LookAheadDays ELSE today
         IN  [status |-> "period", start |-> start, end |-> end]
    ELSE [status |-> "period",
          start |-> IF get_earliest_entry_date(work_entries) = None THEN 0
                    ELSE get_earliest_entry_date(work_entries)[1],
          end |-> requested]

\* generate-invoice, new invoice: the period the command settles on before it
\* asks for the number, or "no_work" when it returns early
NewInvoicePeriod(arg, today) ==
    LET requested == IF arg.kind = "none" THEN today ELSE arg.d IN
    IF last_confirmed_invoice # None
    THEN LET start == last_confirmed_invoice[1].end_date + 1
             end == IF start >= today THEN start + LookAheadDays ELSE today
         IN  IF get_work_entries(work_entries, start, end) = <<>>
             THEN [status |-> "no_work", start |-> start, end |-> end]
             ELSE [status |-> "period", start |-> start, end |-> end]
    ELSE IF get_earliest_entry_date(work_entries) = None
         THEN [status |-> "no_work", start |-> 0, end |-> requested]
         ELSE [status |-> "period",
               start |-> get_earliest_entry_date(work_entries)[1],
               end |-> requested]

\* generate-invoice, regeneration of number n: the period and entries the
\* command renders, "not_found" or "no_entries"
Regenerated(n, today) ==
    LET found == get_invoice_by_number(PyInt(n)) IN
    IF found = None
    THEN [status |-> "not_found", start |-> 0, end |-> 0, entries |-> <<>>]
    ELSE LET start == found[1].start_date
             end == IF start > found[1].end_date THEN today
                    ELSE found[1].end_date
             entries == get_work_entries(work_entries, start, end)
         IN  [status |-> IF entries = <<>> THEN "no_entries" ELSE "generated",
              start |-> start, end |-> end, entries |-> entries]

\* the outcome of the generate-invoice command
GenerateStatus(arg, today) ==
    IF IsInvoiceNumber(arg)
    THEN Regenerated(ParseInvoiceNumber(PyStr(arg.s)).n, today).status
    ELSE IF arg.kind = "text" THEN "bad_parameter"
    ELSE IF NewInvoicePeriod(arg, today).status = "no_work" THEN "no_work"
    ELSE "type_error"

\* core.generate_invoice; InvoiceGenerator.generate_invoice takes the next
\* number from the config whenever a document is rendered
cli_generate_invoice(arg, today) ==
    /\ result' = Outcome(IF IsInvoiceNumber(arg) THEN "regenerate" ELSE "generate",
                         GenerateStatus(arg, today),
                         IF IsInvoiceNumber(arg) THEN NumberGiven(PyStr(arg.s)) ELSE 0)
    /\ IF GenerateStatus(arg, today) = "generated"
       THEN /\ next_number < DefaultNextNumber + ConfigStep * MaxRenders
            /\ next_number' = next_number + ConfigStep
            /\ issued_number' = Some(DisplayForm(next_number))
            /\ save_config
       ELSE UNCHANGED <<next_number, issued_number, config_file>>
    /\ UNCHANGED <<ledger, data_file, pc, last_confirmation>>

\* core.confirm_invoice: the call passes three arguments to the ledger's
\* two-argument confirm_invoice
cli_confirm_invoice(v, confirmation_date) ==
    /\ result' = Outcome("confirm", "type_error", NumberGiven(v))
    /\ UNCHANGED <<ledger, next_number, issued_number, config_file, last_confirmation, data_file, pc>>

\* ---------------------------------------------------------- behaviours
Next ==
    \/ \E d \in Dates, h \in HoursInputs : cli_log_work(d, h, NoDescription)
    \/ \E v \in StoreNumberInputs(Numbers), s \in Dates, e \in Dates :
           store_unconfirmed_invoice(v, s, e, TRUE)
    \/ \E v \in ConfirmNumberInputs : confirm_invoice(v)
    \/ \E arg \in GenerateArgs, today \in Dates : cli_generate_invoice(arg, today)
    \/ \E v \in ConfirmNumberInputs, d \in Dates : cli_confirm_invoice(v, d)

Spec == Init /\ [][Next]_vars

\* the draft and confirmation operations alone, on a ledger without work
\* entries, with drafts numbered from FirstNumbers
LedgerNext ==
    \/ \E v \in StoreNumberInputs(FirstNumbers), s \in Dates, e \in Dates :
           store_unconfirmed_invoice(v, s, e, TRUE)
    \/ \E v \in ConfirmNumberInputs : confirm_invoice(v)
    \/ \E v \in ConfirmNumberInputs, d \in Dates : cli_confirm_invoice(v, d)

LedgerSpec == Init /\ [][LedgerNext]_vars

\* drafts, confirmations and log_work on one ledger
LedgerLogNext ==
    \/ LedgerNext
    \/ \E d \in Dates, h \in 1..MaxHours : log_work(d, h, NoDescription)

LedgerLogSpec == Init /\ [][LedgerLogNext]_vars

\* the three ways to log work, on a ledger without invoices
LogNext ==
    \/ \E d \in Dates, h \in LogHoursInputs, description \in DescriptionInputs :
           log_work(d, h, description)
    \/ \E d \in Dates, h \in LogHoursInputs, description \in DescriptionInputs :
           cli_log_work(d, h, description)
    \/ \E d \in Dates, h \in LogHoursInputs, description \in DescriptionInputs :
           web_log_work(d, h, description)

LogSpec == Init /\ [][LogNext]_vars

\* ------------------------------------------- save_data, step by step
\* A mutating method changes self.aldo_data and then calls save_data, which
\* opens the data file for writing (the file is cut to nothing), dumps the
\* document and closes the file.  pc = "save": aldo_data is changed and
\* save_data is about to open the file; pc = "dump": the file is open and
\* nothing of the dump has reached it.
begin_log_work(d, h, description) ==
    /\ pc = "idle"
    /\ work_entries' = LogWorkEntries(work_entries, d, h, description)
    /\ result' = Outcome("log_work", "saving", 0)
    /\ pc' = "save"
    /\ UNCHANGED <<last_confirmed_invoice, last_unconfirmed_invoice,
                   confirmed_invoices, next_number, issued_number, config_file, last_confirmation, data_file>>

begin_store_unconfirmed_invoice(v, start, end) ==
    /\ pc = "idle"
    /\ last_unconfirmed_invoice' = Some(InvoiceRecord(NumericPart(v, TRUE), start, end))
    /\ result' = Outcome("store_unconfirmed_invoice", "saving", 0)
    /\ pc' = "save"
    /\ UNCHANGED <<work_entries, last_confirmed_invoice, confirmed_invoices,
                   next_number, issued_number, config_file, last_confirmation, data_file>>

\* confirm_invoice reaches save_data only behind its checks
begin_confirm_invoice(v) ==
    /\ pc = "idle"
    /\ ConfirmStatus(v) = "ok"
    /\ confirmed_invoices' =
           PutInvoice(confirmed_invoices, ConfirmedRecord(v).invoice_number,
                      ConfirmedRecord(v))
    /\ last_confirmed_invoice' = Some(ConfirmedRecord(v))
    /\ last_unconfirmed_invoice' = None
    /\ result' = Outcome("confirm_invoice", "saving", NumberGiven(v))
    /\ pc' = "save"
    /\ UNCHANGED <<work_entries, next_number, issued_number, config_file, last_confirmation, data_file>>

\* open(self.data_file, 'w')
save_open ==
    /\ pc = "save"
    /\ data_file' = Truncated
    /\ pc' = "dump"
    /\ UNCHANGED <<ledger, next_number, issued_number, config_file, last_confirmation, result>>

\* json.dump and the close that flushes it; the method returns
save_dump ==
    /\ pc = "dump"
    /\ data_file' = Complete(aldo_data)
    /\ pc' = "idle"
    /\ result' = Outcome(result.op, "ok", result.n)
    /\ UNCHANGED <<ledger, next_number, issued_number, config_file, last_confirmation>>

\* the process dies; what it held in memory is gone with it
crash ==
    /\ pc \in {"idle", "save", "dump"}
    /\ pc' = "crashed"
    /\ result' = Outcome(result.op, "crashed", result.n)
    /\ UNCHANGED <<ledger, next_number, issued_number, config_file, last_confirmation, data_file>>

\* a new process that keeps the default structure and never loads the file
restart_without_load ==
    /\ pc = "crashed"
    /\ work_entries' = DefaultData.work_entries
    /\ last_confirmed_invoice' = DefaultData.last_confirmed_invoice
    /\ last_unconfirmed_invoice' = DefaultData.last_unconfirmed_invoice
    /\ confirmed_invoices' = DefaultData.confirmed_invoices
    /\ result' = Outcome("init", "ok", 0)
    /\ pc' = "idle"
    /\ UNCHANGED <<next_number, issued_number, config_file, last_confirmation, data_file>>

\* a new process: WorkHoursStorage.__init__ finds the file and loads it;
\* json.load raises on a file that holds no document
restart ==
    /\ pc = "crashed"
    /\ IF data_file.kind \in {"absent", "no_directory"}
       THEN /\ work_entries' = DefaultData.work_entries
            /\ last_confirmed_invoice' = DefaultData.last_confirmed_invoice
            /\ last_unconfirmed_invoice' = DefaultData.last_unconfirmed_invoice
            /\ confirmed_invoices' = DefaultData.confirmed_invoices
            /\ data_file' = Complete(DefaultData)
            /\ result' = Outcome("init", "ok", 0)
            /\ pc' = "idle"
       ELSE IF data_file.kind = "complete"
       THEN /\ work_entries' = data_file.data.work_entries
            /\ last_confirmed_invoice' = data_file.data.last_confirmed_invoice
            /\ last_unconfirmed_invoice' = data_file.data.last_unconfirmed_invoice
            /\ confirmed_invoices' = data_file.data.confirmed_invoices
            /\ result' = Outcome("init", "ok", 0)
            /\ pc' = "idle"
            /\ UNCHANGED data_file
       ELSE /\ result' = Outcome("init", "load_error", 0)
            /\ UNCHANGED <<ledger, pc, data_file>>
    /\ UNCHANGED <<next_number, issued_number, config_file, last_confirmation>>

\* ------------------------------------------------ calls that fail late
\* what a save_data that raises leaves in the file: the old document when
\* open fails, no document when the dump fails; without the directory open
\* cannot but fail
AfterFailedSave ==
    IF data_file.kind = "no_directory" THEN {data_file} ELSE {data_file, Truncated}

\* log_work whose save_data raises
log_work_save_fails(d, h, description) ==
    /\ pc = "idle"
    /\ work_entries' = LogWorkEntries(work_entries, d, h, description)
    /\ data_file' \in AfterFailedSave
    /\ result' = Outcome("log_work", "save_error", 0)
    /\ UNCHANGED <<last_confirmed_invoice, last_unconfirmed_invoice,
                   confirmed_invoices, next_number, issued_number, config_file, last_confirmation, pc>>

\* store_unconfirmed_invoice whose save_data raises
store_unconfirmed_invoice_save_fails(v, start, end) ==
    /\ pc = "idle"
    /\ last_unconfirmed_invoice' = Some(InvoiceRecord(NumericPart(v, TRUE), start, end))
    /\ data_file' \in AfterFailedSave
    /\ result' = Outcome("store_unconfirmed_invoice", "save_error", 0)
    /\ UNCHANGED <<work_entries, last_confirmed_invoice, confirmed_invoices,
                   next_number, issued_number, config_file, last_confirmation, pc>>

\* confirm_invoice whose save_data raises
confirm_invoice_save_fails(v) ==
    /\ pc = "idle"
    /\ ConfirmStatus(v) = "ok"
    /\ confirmed_invoices' =
           PutInvoice(confirmed_invoices, ConfirmedRecord(v).invoice_number,
                      ConfirmedRecord(v))
    /\ last_confirmed_invoice' = Some(ConfirmedRecord(v))
    /\ last_unconfirmed_invoice' = None
    /\ data_file' \in AfterFailedSave
    /\ result' = Outcome("confirm_invoice", "save_error", NumberGiven(v))
    /\ UNCHANGED <<work_entries, next_number, issued_number, config_file, last_confirmation, pc>>

\* generate-invoice whose document cannot be built: InvoiceGenerator has
\* taken the number from the config before it builds the document
cli_generate_invoice_render_fails(arg, today) ==
    /\ pc = "idle"
    /\ GenerateStatus(arg, today) = "generated"
    /\ next_number < DefaultNextNumber + ConfigStep * MaxRenders
    /\ next_number' = next_number + ConfigStep
    /\ issued_number' = Some(DisplayForm(next_number))
    /\ save_config
    /\ result' = Outcome("regenerate", "render_error", NumberGiven(PyStr(arg.s)))
    /\ UNCHANGED <<ledger, data_file, pc, last_confirmation>>

SaveNext ==
    \/ \E d \in Dates, h \in 1..MaxHours : begin_log_work(d, h, NoDescription)
    \/ \E n \in FirstNumbers, s \in Dates, e \in Dates :
           begin_store_unconfirmed_invoice(PyInt(n), s, e)
    \/ \E n \in FirstNumbers : begin_confirm_invoice(PyInt(n))
    \/ save_open
    \/ save_dump
    \/ crash
    \/ restart
    \/ \E d \in Dates, h \in 1..MaxHours : log_work_save_fails(d, h, NoDescription)
    \/ \E n \in FirstNumbers, s \in Dates, e \in Dates :
           store_unconfirmed_invoice_save_fails(PyInt(n), s, e)
    \/ \E n \in FirstNumbers : confirm_invoice_save_fails(PyInt(n))
    \/ \E n \in FirstNumbers, today \in Dates :
           cli_generate_invoice_render_fails(TextArg(IntToStr(n)), today)

SaveSpec == Init /\ [][SaveNext]_vars

\* every list log_work can leave behind: entries of distinct dates, in any
\* order
EntryLists(hours, descriptions) ==
    LET Entry == [date : Dates, hours : hours, description : descriptions] IN
    {s \in UNION {[1..k -> Entry] : k \in 0..MaxDate} :
        \A i \in 1..Len(s), j \in 1..Len(s) : i # j => s[i].date # s[j].date}

\* a start on a data file that holds entries and at most one confirmed
\* invoice, no draft pending
ProposeInit ==
    /\ work_entries \in EntryLists(1..MaxHours, {NoDescription})
    /\ \/ /\ last_confirmed_invoice = None
          /\ confirmed_invoices = <<>>
       \/ \E n \in FirstNumbers, s \in Dates, e \in Dates :
             /\ last_confirmed_invoice = Some(InvoiceRecord(IntToStr(n), s, e))
             /\ confirmed_invoices =
                    PutInvoice(<<>>, IntToStr(n), InvoiceRecord(IntToStr(n), s, e))
    /\ last_unconfirmed_invoice = None
    /\ next_number = DefaultNextNumber
    /\ result = Outcome("init", "ok", 0)
    /\ data_file = Complete(aldo_data)
    /\ pc = "idle"
    /\ issued_number = None
    /\ config_file = next_number
    /\ last_confirmation = None

\* the generate-invoice command alone
ProposeNext ==
    \E arg \in GenerateArgs, today \in Dates : cli_generate_invoice(arg, today)

ProposeSpec == ProposeInit /\ [][ProposeNext]_vars

\* ------------------------------------------------- the data directory
\* an ensure_storage_exists that writes the file whether it is there or not
ensure_storage_exists_overwriting ==
    /\ pc = "idle"
    /\ data_file' = Complete(aldo_data)
    /\ result' = Outcome("ensure_storage_exists",
                         IF data_file.kind \in {"absent", "no_directory"}
                         THEN "created" ELSE "exists", 0)
    /\ UNCHANGED <<ledger, next_number, issued_number, config_file, last_confirmation, pc>>

\* WorkHoursStorage.ensure_storage_exists: mkdir when the directory is
\* missing, save_data when the file is missing
ensure_storage_exists ==
    /\ pc = "idle"
    /\ data_file' = IF data_file.kind \in {"absent", "no_directory"}
                    THEN Complete(aldo_data) ELSE data_file
    /\ result' = Outcome("ensure_storage_exists",
                         IF data_file.kind \in {"absent", "no_directory"}
                         THEN "created" ELSE "exists", 0)
    /\ UNCHANGED <<ledger, next_number, issued_number, config_file, last_confirmation, pc>>

\* the data file is deleted behind the program's back (unlink)
remove_data_file ==
    /\ pc = "idle"
    /\ data_file.kind \in {"complete", "truncated"}
    /\ data_file' = Absent
    /\ result' = Outcome("unlink", "ok", 0)
    /\ UNCHANGED <<ledger, next_number, issued_number, config_file, last_confirmation, pc>>

\* the empty data directory is deleted (rmdir)
remove_data_dir ==
    /\ pc = "idle"
    /\ data_file.kind = "absent"
    /\ data_file' = NoDirectory
    /\ result' = Outcome("rmdir", "ok", 0)
    /\ UNCHANGED <<ledger, next_number, issued_number, config_file, last_confirmation, pc>>

\* ensure_storage_exists on a ledger whose file may be gone, or behind the
\* memory after a save that failed
FileNext ==
    \/ ensure_storage_exists
    \/ remove_data_file
    \/ remove_data_dir
    \/ \E d \in Dates, h \in 1..MaxHours, description \in DescriptionInputs :
           log_work_save_fails(d, h, description)

FileSpec == Init /\ [][FileNext]_vars

\* ----------------------------------------------------------- summary
\* the period names a caller may pass; "day" is no period of this module
PeriodInputs == {"week", "month", "year", "day"}

\* get_summary: the date range of a period.  week: the seven days before
\* today and today; month: the first to the last day of today's month
\* (December and January have 31 days); year: 1 January to 31 December of
\* today's year (365 days)
PeriodRange(period, today) ==
    IF period = "week"
    THEN [status |-> "ok", start |-> today - 7, end |-> today]
    ELSE IF period = "month"
    THEN IF today <= DecemberDays
         THEN [status |-> "ok", start |-> DecemberDays - 30, end |-> DecemberDays]
         ELSE [status |-> "ok", start |-> DecemberDays + 1, end |-> DecemberDays + 31]
    ELSE IF period = "year"
    THEN IF today <= DecemberDays
         THEN [status |-> "ok", start |-> DecemberDays - 364, end |-> DecemberDays]
         ELSE [status |-> "ok", start |-> DecemberDays + 1, end |-> DecemberDays + 365]
    ELSE [status |-> "value_error", start |-> 0, end |-> 0]

\* what the summary keeps of an entry
SummaryItem(e) == [hours |-> e.hours, description |-> e.description]

\* a grouping in which a later entry of a date takes the place of the earlier
RECURSIVE GroupByDateKeepingLast(_, _)
GroupByDateKeepingLast(summary, entries) ==
    IF entries = <<>> THEN summary
    ELSE GroupByDateKeepingLast(
             [k \in DOMAIN summary \cup {Head(entries).date} |->
                 IF k = Head(entries).date THEN <<SummaryItem(Head(entries))>>
                 ELSE summary[k]],
             Tail(entries))

\* get_summary, the loop: summary[date] is created empty at the first entry
\* of a date and every entry is appended to the list of its date
RECURSIVE GroupByDate(_, _)
GroupByDate(summary, entries) ==
    IF entries = <<>> THEN summary
    ELSE GroupByDate(
             [k \in DOMAIN summary \cup {Head(entries).date} |->
                 IF k = Head(entries).date
                 THEN (IF k \in DOMAIN summary THEN summary[k] ELSE <<>>)
                          \o <<SummaryItem(Head(entries))>>
                 ELSE summary[k]],
             Tail(entries))

\* WorkHoursStorage.get_summary(period) on a given day
get_summary(entries, period, today) ==
    LET range == PeriodRange(period, today) IN
    IF range.status # "ok"
    THEN [status |-> "value_error", summary |-> <<>>]
    ELSE [status |-> "ok",
          summary |-> GroupByDate(<<>>, get_work_entries(entries, range.start,
                                                         range.end))]

\* a summary is asked for; the ledger is read only
summary(period, today) ==
    /\ result' = Outcome("summary", get_summary(work_entries, period, today).status,
                         Cardinality(DOMAIN get_summary(work_entries, period,
                                                        today).summary))
    /\ UNCHANGED <<ledger, next_number, issued_number, config_file, last_confirmation, data_file, pc>>

\* every list a data file can hold: up to MaxTerms entries, dates repeated
\* or not, in any order
StoredLists ==
    LET Entry == [date : Dates, hours : 1..MaxHours,
                  description : DescriptionInputs] IN
    UNION {[1..k -> Entry] : k \in 0..MaxTerms}

\* a start on a data file that holds entries and no invoice
SummaryInit ==
    /\ work_entries \in StoredLists
    /\ last_confirmed_invoice = None
    /\ last_unconfirmed_invoice = None
    /\ confirmed_invoices = <<>>
    /\ next_number = DefaultNextNumber
    /\ result = Outcome("init", "ok", 0)
    /\ data_file = Complete(aldo_data)
    /\ pc = "idle"
    /\ issued_number = None
    /\ config_file = next_number
    /\ last_confirmation = None

SummaryNext == \E period \in PeriodInputs, today \in Dates : summary(period, today)

SummarySpec == SummaryInit /\ [][SummaryNext]_vars

\* ------------------------------------------------------- total hours
\* hours that are floats: a small amount, twice that, and an amount whose
\* last bit is twice the small amount
FloatHours == {1, 2, Pow2(MantissaBits)}

\* the lists get_total_hours is given: up to MaxTerms entries
TotalInputs ==
    LET Entry == [date : {1}, hours : FloatHours, description : {NoDescription}] IN
    UNION {[1..k -> Entry] : k \in 0..MaxTerms}

\* a call of get_total_hours on a given list; the ledger is not involved
total_hours(entries) ==
    /\ result' = Outcome("get_total_hours", "ok", get_total_hours(entries))
    /\ UNCHANGED <<ledger, next_number, issued_number, config_file, last_confirmation, data_file, pc>>

TotalNext == \E entries \in TotalInputs : total_hours(entries)

\* get_total_hours called on every ledger of ProposeInit
TotalSpec == ProposeInit /\ [][TotalNext]_vars

\* --------------------------------------------------- the config counter
\* Config.get_next_invoice_number of src/aldo/config.py: the current number
\* is formatted, the counter is advanced and the config is saved
config_get_next_invoice_number ==
    /\ next_number < MaxNextNumber
    /\ next_number' = next_number + ConfigStep
    /\ save_config
    /\ issued_number' = Some(DisplayForm(next_number))
    /\ result' = Outcome("get_next_invoice_number", "ok", next_number)
    /\ UNCHANGED <<ledger, data_file, pc, last_confirmation>>

\* Config.get_next_invoice_number of src/config.py
legacy_config_get_next_invoice_number ==
    /\ next_number < MaxNextNumber
    /\ next_number' = next_number + LegacyConfigStep
    /\ save_config
    /\ issued_number' = Some(DisplayForm(next_number))
    /\ result' = Outcome("legacy_get_next_invoice_number", "ok", next_number)
    /\ UNCHANGED <<ledger, data_file, pc, last_confirmation>>

\* what a caller passes to set_end_date: the number before the counter and
\* the counter itself, as int, decimal string and display form, and a string
\* that is no number
EndDateInputs ==
    LET numbers == {next_number - ConfigStep, next_number} IN
    {PyInt(n) : n \in numbers}
        \cup {PyStr(IntToStr(n)) : n \in numbers}
        \cup {PyStr(DisplayForm(n)) : n \in numbers}
        \cup {PyStr(<<"x">>)}

\* the outcome of Config.set_end_date(v, ...) in this state
EndDateStatus(v) ==
    LET p == ParseInvoiceNumber(v) IN
    IF p.status = "raise" THEN "value_error"
    ELSE IF p.status = "none" THEN "false"
    ELSE IF p.n # next_number - ConfigStep THEN "false"
    ELSE "ok"

\* Config.set_end_date(v, d): d is the confirmation date given, or today;
\* save_config writes the two fields with the rest of the config
set_end_date(v, d) ==
    /\ result' = Outcome("set_end_date", EndDateStatus(v), NumberGiven(v))
    /\ UNCHANGED <<ledger, next_number, issued_number, data_file, pc>>
    /\ IF EndDateStatus(v) = "ok"
       THEN /\ last_confirmation' = Some([number |-> ParseInvoiceNumber(v).n,
                                          date |-> d])
            /\ save_config
       ELSE UNCHANGED <<last_confirmation, config_file>>

\* the config of src/aldo/config.py: numbers are issued and end dates set
EndDateNext ==
    \/ /\ next_number < DefaultNextNumber + ConfigStep * MaxIssues
       /\ config_get_next_invoice_number
    \/ \E v \in EndDateInputs, d \in Dates : set_end_date(v, d)

EndDateSpec == Init /\ [][EndDateNext]_vars

\* a config that starts from the defaults of either module
ConfigInit ==
    /\ work_entries = <<>>
    /\ last_confirmed_invoice = None
    /\ last_unconfirmed_invoice = None
    /\ confirmed_invoices = <<>>
    /\ next_number \in {LegacyDefaultNextNumber, DefaultNextNumber}
    /\ result = Outcome("init", "ok", 0)
    /\ data_file = Complete(DefaultData)
    /\ pc = "idle"
    /\ issued_number = None
    /\ config_file = next_number
    /\ last_confirmation = None

\* calls of get_next_invoice_number alone; a run that mixes the two modules
\* covers the runs of each
ConfigNext ==
    \/ config_get_next_invoice_number
    \/ legacy_config_get_next_invoice_number

ConfigSpec == ConfigInit /\ [][ConfigNext]_vars

\* ------------------------------------------------------------ properties
\* the integer a stored invoice-number string denotes
Denotes(s) == StrToInt(s)

\* n is the number of a confirmed invoice
NumberConfirmed(n) == \E k \in DOMAIN confirmed_invoices : Denotes(k) = n

ConfirmSucceeded == result.op = "confirm_invoice" /\ result.status = "ok"

\* C1: for every two invoices confirmed one after the other (the later one
\* carrying the next number in sequence), the later one's start date is the
\* earlier one's end date plus one day.
C1_GaplessPeriods ==
    [][(/\ ConfirmSucceeded'
        /\ last_confirmed_invoice # None
        /\ result'.n = get_next_invoice_number)
          => last_confirmed_invoice'[1].start_date
                 = last_confirmed_invoice[1].end_date + 1]_vars

\* C2: the first confirmed invoice carries the base number and every later
\* one the previously confirmed number plus the step: the number confirmed is
\* always the one get_next_invoice_number gave before the confirmation.
C2_NumberSequence ==
    [][ConfirmSucceeded' => result'.n = get_next_invoice_number]_vars

\* C3: while a draft is pending, confirm_invoice with a number succeeds exactly
\* when the number is the draft's number, and fails with the mismatch error
\* for every other number.
C3_ConfirmIffDraftNumber ==
    last_unconfirmed_invoice # None =>
        \A v \in ConfirmNumberInputs :
            ParseInvoiceNumber(v).status = "int" =>
                IF NumberGiven(v) = Denotes(last_unconfirmed_invoice[1].invoice_number)
                THEN ConfirmStatus(v) = "ok"
                ELSE ConfirmStatus(v) = "mismatch"

\* C4: a new-invoice generation that has settled on a period holding work
\* entries leaves exactly that period in the draft slot.
C4_DraftIsReported ==
    [][\A arg \in GenerateArgs, today \in Dates :
          (/\ cli_generate_invoice(arg, today)
           /\ arg.kind # "text"
           /\ NewInvoicePeriod(arg, today).status = "period")
          => /\ last_unconfirmed_invoice' # None
             /\ last_unconfirmed_invoice'[1].start_date
                    = NewInvoicePeriod(arg, today).start
             /\ last_unconfirmed_invoice'[1].end_date
                    = NewInvoicePeriod(arg, today).end]_vars

\* C5: when a draft numbered by get_next_invoice_number is replaced, with no
\* confirmation in between, by another draft numbered the same way, the first
\* draft's number is not the new draft's number and confirming it fails with
\* the mismatch error.
C5_AbandonedNumber ==
    [][(/\ last_unconfirmed_invoice # None
        /\ last_unconfirmed_invoice[1].invoice_number
               = IntToStr(get_next_invoice_number)
        /\ result'.op = "store_unconfirmed_invoice"
        /\ last_unconfirmed_invoice'[1].invoice_number
               = IntToStr(get_next_invoice_number))
       => /\ last_unconfirmed_invoice'[1].invoice_number
                 # last_unconfirmed_invoice[1].invoice_number
          /\ ConfirmStatus(PyStr(last_unconfirmed_invoice[1].invoice_number))'
                 = "mismatch"]_vars

\* C6: once a number is confirmed and regenerates to an invoice, regenerating
\* it yields the same period and the same entries after every later step.
C6_RegenerationStable ==
    [][\A n \in Numbers, today \in Dates :
          (NumberConfirmed(n) /\ Regenerated(n, today).status = "generated")
              => Regenerated(n, today)' = Regenerated(n, today)]_vars

\* C7: regenerating a confirmed invoice changes neither the ledger nor the
\* invoice-number counter.
C7_RegenerateMutatesNothing ==
    [][(result'.op = "regenerate" /\ result'.status # "not_found")
          => UNCHANGED <<ledger, next_number>>]_vars

\* C8: regenerating a number that is not confirmed, the pending draft's
\* number included, reports not-found, renders nothing and changes nothing.
C8_UnconfirmedNotFound ==
    [][(result'.op = "regenerate" /\ ~NumberConfirmed(result'.n))
          => /\ result'.status = "not_found"
             /\ UNCHANGED <<ledger, next_number>>]_vars

C8_Witness ==
    /\ result = Outcome("regenerate", "not_found", BaseNumber)
    /\ last_unconfirmed_invoice # None
    /\ last_unconfirmed_invoice[1].invoice_number = IntToStr(BaseNumber)
    /\ work_entries # <<>>

C11_NextNumberNeverReused ==
    /\ confirmed_invoices = <<>> => get_next_invoice_number = BaseNumber
    /\ ConfirmSucceeded => get_next_invoice_number = result.n + StorageStep
    /\ last_unconfirmed_invoice # None =>
           ~NumberConfirmed(Denotes(last_unconfirmed_invoice[1].invoice_number))

\* the arguments that ask for a new invoice: no end date, or an end date
NewInvoiceArgs == {NoArg} \cup {DateArg(d) : d \in Dates}

\* C12: when a new invoice is generated for a requested end date, the period
\* the command settles on ends on that date, with or without a confirmed
\* invoice.
C12_RequestedEndDateKept ==
    \A d \in Dates, today \in Dates :
        NewInvoicePeriod(DateArg(d), today).status = "period"
            => NewInvoicePeriod(DateArg(d), today).end = d

\* C13: the period of a new invoice ends LookAheadDays after its start exactly
\* when no invoice is confirmed, no end date was requested and the start is
\* today or later; in every other case it ends on the requested date, or on
\* today when none was requested.
C13_LookAheadDefault ==
    \A arg \in NewInvoiceArgs, today \in Dates :
        LET p == NewInvoicePeriod(arg, today) IN
        p.status = "period" =>
            IF last_confirmed_invoice = None /\ arg.kind = "none" /\ p.start >= today
            THEN p.end = p.start + LookAheadDays
            ELSE p.end = (IF arg.kind = "date" THEN arg.d ELSE today)

\* C14: generating a new invoice fails with the invalid-range error whenever
\* the period it settles on starts after it ends, and whenever an invoice is
\* confirmed and the requested end date is before the day after its end.
C14_InvalidRangeRejected ==
    \A arg \in NewInvoiceArgs, today \in Dates :
        LET p == NewInvoicePeriod(arg, today) IN
        /\ (p.status = "period" /\ p.start > p.end)
               => GenerateStatus(arg, today) = "invalid_range"
        /\ (/\ last_confirmed_invoice # None
            /\ arg.kind = "date"
            /\ arg.d < last_confirmed_invoice[1].end_date + 1)
               => GenerateStatus(arg, today) = "invalid_range"

\* the entries dated from start to end, both included
EntriesWithin(start, end) ==
    {i \in 1..Len(work_entries) :
        start <= work_entries[i].date /\ work_entries[i].date <= end}

EntriesOf(entries, d) == {i \in 1..Len(entries) : entries[i].date = d}

\* the step is a call that logs d, h, description and reaches the ledger
Logs(d, h, description) ==
    \/ result'.op = "log_work" /\ log_work(d, h, description)
    \/ result'.op = "log" /\ h > 0 /\ cli_log_work(d, h, description)
    \/ result'.op = "web_log" /\ h > 0 /\ web_log_work(d, h, description)

\* C16: after a call that logs work for date d the ledger holds one entry for
\* d, with the hours and the description of that call, and for every other
\* date the entry it held before, at most one; so from the empty ledger on
\* each date has at most one entry, the one of the last call for it.
C16_LastWriteWins ==
    [][\A d \in Dates, h \in LogHoursInputs, description \in DescriptionInputs :
          Logs(d, h, description) =>
              /\ \A i \in EntriesOf(work_entries', d) :
                     work_entries'[i]
                         = [date |-> d, hours |-> h, description |-> description]
              /\ \A d2 \in Dates :
                     /\ Cardinality(EntriesOf(work_entries', d2)) <= 1
                     /\ d2 = d => EntriesOf(work_entries', d2) # {}
                     /\ d2 # d =>
                            {work_entries'[i] : i \in EntriesOf(work_entries', d2)}
                                = {work_entries[i] : i \in EntriesOf(work_entries, d2)}]_vars

C16_Witness ==
    /\ result.status = "replaced"
    /\ Len(work_entries) = 2
    /\ work_entries[2].hours > 1

\* C17: a call that logs work with hours that are not positive fails with a
\* validation error and leaves the entries as they were, at the ledger's
\* log_work, at the CLI log command and at the web log form.
C17_NonPositiveHoursRejected ==
    [][\A d \in Dates, h \in LogHoursInputs, description \in DescriptionInputs :
          (/\ h <= 0
           /\ \/ log_work(d, h, description)
              \/ cli_log_work(d, h, description)
              \/ web_log_work(d, h, description))
              => /\ result'.status \in {"bad_parameter", "validation_error"}
                 /\ UNCHANGED work_entries]_vars

\* how often e occurs in a list
Occurrences(entries, e) == Cardinality({i \in 1..Len(entries) : entries[i] = e})

\* C18: for all dates a <= b, get_work_entries(a, b) holds each stored entry
\* dated from a to b as often as the ledger does and nothing else, in
\* ascending order of date, and is the empty list when no entry is in range.
C18_EntriesInRange ==
    \A a \in Dates, b \in Dates :
        a <= b =>
            LET r == get_work_entries(work_entries, a, b) IN
            /\ \A i \in 1..Len(work_entries) :
                   Occurrences(r, work_entries[i])
                       = IF a <= work_entries[i].date /\ work_entries[i].date <= b
                         THEN Occurrences(work_entries, work_entries[i])
                         ELSE 0
            /\ \A i \in 1..Len(r) :
                   \E j \in 1..Len(work_entries) : work_entries[j] = r[i]
            /\ \A i \in 1..(Len(r) - 1) : r[i].date <= r[i + 1].date
            /\ (\A i \in 1..Len(work_entries) :
                    work_entries[i].date < a \/ work_entries[i].date > b)
                   => r = <<>>

C18_Witness ==
    /\ Len(work_entries) = 2
    /\ work_entries[1].date > work_entries[2].date
    /\ get_work_entries(work_entries, 1, MaxDate) # work_entries
    /\ Len(get_work_entries(work_entries, 1, 1)) = 1

\* C19: when the process dies, at whatever point of a call, the data file
\* holds a whole document.
C19_SaveAtomicOnCrash ==
    pc = "crashed" => data_file.kind = "complete"

\* C20: a mutating call that fails, on its save or on building the document,
\* leaves the entries, the draft, the confirmed invoices and the counter as
\* they were before the call.
C20_AllOrNothing ==
    [][result'.status \in {"save_error", "render_error"}
          => UNCHANGED <<ledger, next_number>>]_vars

\* C21: whenever a mutating ledger operation or the construction of a new
\* WorkHoursStorage returns successfully, the data file holds exactly the
\* in-memory entries, draft, confirmed invoices and last-confirmed record;
\* a process restarted on a file that held the in-memory state observes that
\* same state.
C21_PersistedEqualsMemory ==
    [][/\ result'.status = "ok" => data_file' = Complete(aldo_data')
       /\ (pc = "crashed" /\ pc' = "idle" /\ data_file = Complete(aldo_data))
              => aldo_data' = aldo_data]_vars

\* a restarted process that found a draft, a confirmed invoice and an entry
C21_Witness ==
    /\ pc = "idle"
    /\ result = Outcome("init", "ok", 0)
    /\ work_entries # <<>>
    /\ last_confirmed_invoice # None
    /\ last_unconfirmed_invoice # None

\* the invoice-number arguments that are neither an integer nor the prefix
\* followed by an integer
Unparseable == {v \in ConfirmNumberInputs : ParseInvoiceNumber(v).status # "int"}

\* C22: confirm_invoice answers an invoice number that cannot be parsed with
\* an error of its own - not with a normal return value, and not with the
\* error of a missing draft or of a mismatch - and leaves the ledger and the
\* data file as they were.
C22_UnparseableRejected ==
    [][\A v \in Unparseable :
          (last_unconfirmed_invoice # None /\ confirm_invoice(v))
              => /\ result'.status \notin {"ok", "false", "no_draft", "mismatch"}
                 /\ UNCHANGED <<ledger, data_file>>]_vars

\* C23: a confirmation succeeds only on a pending draft and the record it
\* confirms is that draft; no confirmed record is the pending draft again.
C23_ConfirmedNeverDraftAgain ==
    [][/\ ConfirmSucceeded' =>
              /\ last_unconfirmed_invoice # None
              /\ last_confirmed_invoice' = last_unconfirmed_invoice
       /\ last_unconfirmed_invoice' # None =>
              \A k \in DOMAIN confirmed_invoices' :
                  confirmed_invoices'[k] # last_unconfirmed_invoice'[1]]_vars

\* C24: a key of confirmed_invoices stays a key and keeps its record under
\* every operation, and while the mapping is not empty last_confirmed_invoice
\* is its record with the highest number.
C24_ConfirmedAppendOnly ==
    [][/\ \A k \in DOMAIN confirmed_invoices :
              /\ k \in DOMAIN confirmed_invoices'
              /\ confirmed_invoices'[k] = confirmed_invoices[k]
       /\ confirmed_invoices' # <<>> =>
              /\ last_confirmed_invoice' # None
              /\ \E k \in DOMAIN confirmed_invoices' :
                     /\ last_confirmed_invoice'[1] = confirmed_invoices'[k]
                     /\ \A j \in DOMAIN confirmed_invoices' :
                            Denotes(j) <= Denotes(k)]_vars

\* C25: get_earliest_entry_date is absent on an empty ledger and otherwise
\* the date of an entry that no entry's date is below; with no confirmed
\* invoice every new-invoice period starts on that date.
C25_StartAtEarliestEntry ==
    LET earliest == get_earliest_entry_date(work_entries) IN
    /\ work_entries = <<>> => earliest = None
    /\ work_entries # <<>> =>
           /\ earliest # None
           /\ \E i \in 1..Len(work_entries) : work_entries[i].date = earliest[1]
           /\ \A i \in 1..Len(work_entries) : earliest[1] <= work_entries[i].date
           /\ last_confirmed_invoice = None =>
                  \A arg \in NewInvoiceArgs, today \in Dates :
                      LET p == NewInvoicePeriod(arg, today) IN
                      /\ p.status = "period"
                      /\ \A i \in 1..Len(work_entries) : p.start <= work_entries[i].date
                      /\ \E i \in 1..Len(work_entries) : p.start = work_entries[i].date

\* a period was proposed on a ledger whose first stored entry is not its
\* earliest, with nothing confirmed
C25_Witness ==
    /\ last_confirmed_invoice = None
    /\ Len(work_entries) >= 2
    /\ work_entries[1].date > work_entries[2].date
    /\ result.op = "generate"
    /\ result.status = "type_error"

\* C27: generating a new invoice leaves the invoice-number counters as they
\* were, and the config counter moves only in a step that confirms an
\* invoice.
C27_GenerateKeepsCounter ==
    [][/\ result'.op = "generate" =>
              /\ next_number' = next_number
              /\ get_next_invoice_number' = get_next_invoice_number
       /\ next_number' # next_number => ConfirmSucceeded']_vars

\* C28: the confirm command given the number of the pending draft, bare or
\* with the prefix, with any confirmation date, reports success, makes that
\* number the last confirmed invoice and leaves no draft pending.
C28_CliConfirmConfirms ==
    [][\A v \in ConfirmNumberInputs, d \in Dates :
          (/\ last_unconfirmed_invoice # None
           /\ ParseInvoiceNumber(v).status = "int"
           /\ IntToStr(NumberGiven(v)) = last_unconfirmed_invoice[1].invoice_number
           /\ result'.op = "confirm"
           /\ cli_confirm_invoice(v, d))
              => /\ result'.status = "ok"
                 /\ last_confirmed_invoice' # None
                 /\ last_confirmed_invoice'[1].invoice_number =
                        last_unconfirmed_invoice[1].invoice_number
                 /\ last_unconfirmed_invoice' = None]_vars

\* the integer written behind the prefix of an issued number
IssuedValue(s) == StrToInt(StripPrefix(s, prefix))

\* C26: a call of Config.get_next_invoice_number returns the prefix followed
\* by the decimal digits of the current next_number, filled with zeros on the
\* left to four digits and not beyond; it advances next_number by the step
\* of its module and saves it; the number it returns is above the number
\* returned by the call before.
C26_IssuedNumbersIncrease ==
    [][result'.op \in {"get_next_invoice_number", "legacy_get_next_invoice_number"} =>
          /\ issued_number' # None
          /\ StartsWith(issued_number'[1], prefix)
          /\ LET digits == StripPrefix(issued_number'[1], prefix) IN
                 /\ IntParses(digits)
                 /\ StrToInt(digits) = next_number
                 /\ Len(digits) >= PadWidth
                 /\ Len(digits) > PadWidth => digits[1] # "0"
          /\ next_number' = next_number +
                 (IF result'.op = "get_next_invoice_number"
                  THEN ConfigStep ELSE LegacyConfigStep)
          /\ config_file' = next_number'
          /\ issued_number # None =>
                 IssuedValue(issued_number[1]) < IssuedValue(issued_number'[1])]_vars

\* the second call on a fresh legacy counter has returned INV-0002
C26_Witness ==
    /\ result = Outcome("legacy_get_next_invoice_number", "ok", 2)
    /\ issued_number = Some(prefix \o <<"0", "0", "0", "2">>)
    /\ next_number = 3
    /\ config_file = 3

\* C29: after ensure_storage_exists the data directory and the data file
\* exist; a data file that was there before the call has its content
\* unchanged; the ledger in memory is unchanged; and a call that follows
\* another call changes nothing at all.
C29_EnsureStorageExists ==
    [][result'.op = "ensure_storage_exists" =>
          /\ data_file'.kind \notin {"absent", "no_directory"}
          /\ data_file.kind \notin {"absent", "no_directory"} => data_file' = data_file
          /\ UNCHANGED ledger
          /\ result.op = "ensure_storage_exists" => data_file' = data_file]_vars

\* the call has created the directory and the file anew
C29_Witness ==
    /\ result = Outcome("ensure_storage_exists", "created", 0)
    /\ data_file.kind = "complete"
    /\ work_entries # <<>>

\* other holds the same entries as entries, in some order
IsPermutation(other, entries) ==
    /\ Len(other) = Len(entries)
    /\ \A i \in 1..Len(entries) :
           Occurrences(other, entries[i]) = Occurrences(entries, entries[i])

\* C30: get_total_hours gives 0 for the empty list, gives the same total for
\* the same entries in every order, and gives it whatever the ledger holds.
C30_TotalHoursOrderFree ==
    [][\A entries \in TotalInputs :
          (result'.op = "get_total_hours" /\ total_hours(entries)) =>
              /\ entries = <<>> => result'.n = 0
              /\ \A other \in TotalInputs :
                     IsPermutation(other, entries) =>
                         get_total_hours(other) = result'.n]_vars

C32_DocumentCarriesReportedNumber ==
    [][(result'.status = "generated" /\ result'.op \in {"generate", "regenerate"})
          => issued_number' = Some(DisplayForm(result'.n))]_vars

\* the dates that have an entry
EntryDates(entries) == {entries[i].date : i \in 1..Len(entries)}

\* C33: a log_work for date d leaves the entries of every other date, the
\* pending draft, the confirmed invoices and the last confirmed invoice as
\* they were, and every date that had an entry still has one.
C33_LogWorkFrame ==
    [][\A d \in Dates :
          (/\ result'.op = "log_work"
           /\ \E h \in 1..MaxHours : log_work(d, h, NoDescription))
              => /\ \A d2 \in Dates \ {d} :
                        SelectSeq(work_entries', LAMBDA e : e.date = d2)
                            = SelectSeq(work_entries, LAMBDA e : e.date = d2)
                 /\ UNCHANGED <<last_unconfirmed_invoice, confirmed_invoices,
                                last_confirmed_invoice>>
                 /\ EntryDates(work_entries) \subseteq EntryDates(work_entries')]_vars

\* an entry was replaced while a draft was pending behind a confirmed invoice
\* and another date had an entry
C33_Witness ==
    /\ result = Outcome("log_work", "replaced", 0)
    /\ Len(work_entries) = 2
    /\ last_unconfirmed_invoice # None
    /\ last_confirmed_invoice # None

\* C34: set_end_date returns True, and records the number and the date,
\* exactly when the number is the one get_next_invoice_number returned last;
\* in every other case it returns False and leaves the config as it was.
C34_EndDateOnlyForIssued ==
    [][result'.op = "set_end_date" =>
          IF issued_number # None /\ result'.n = IssuedValue(issued_number[1])
          THEN /\ result'.status = "ok"
               /\ last_confirmation' # None
               /\ last_confirmation'[1].number = result'.n
          ELSE /\ result'.status = "false"
               /\ UNCHANGED <<next_number, config_file, last_confirmation>>]_vars

\* C35: after store_unconfirmed_invoice is given the display form of n with
\* the config, the stored draft number denotes n and confirm_invoice succeeds
\* for n as an integer, as a decimal string and in the display form.
C35_DisplayFormRoundTrip ==
    [][\A n \in FirstNumbers, s \in Dates, e \in Dates :
          (/\ result'.op = "store_unconfirmed_invoice"
           /\ store_unconfirmed_invoice(PyStr(DisplayForm(n)), s, e, TRUE))
              => /\ Denotes(last_unconfirmed_invoice'[1].invoice_number) = n
                 /\ \A v \in {PyInt(n), PyStr(IntToStr(n)), PyStr(DisplayForm(n))} :
                        ConfirmStatus(v)' = "ok"]_vars

\* C36: a pending draft carries the number get_next_invoice_number returns,
\* which is above every confirmed number and is no key of confirmed_invoices.
C36_DraftCarriesNextNumber ==
    last_unconfirmed_invoice # None =>
        /\ Denotes(last_unconfirmed_invoice[1].invoice_number) = get_next_invoice_number
        /\ \A k \in DOMAIN confirmed_invoices :
               Denotes(k) < Denotes(last_unconfirmed_invoice[1].invoice_number)
        /\ last_unconfirmed_invoice[1].invoice_number \notin DOMAIN confirmed_invoices

\* the pending draft and the confirmed records
InvoiceRecords ==
    {confirmed_invoices[k] : k \in DOMAIN confirmed_invoices}
        \cup {last_unconfirmed_invoice[i] : i \in DOMAIN last_unconfirmed_invoice}

\* C37: the pending draft and every confirmed record start no later than
\* they end and have a work entry dated within their period.
C37_PeriodsHoldWork ==
    \A r \in InvoiceRecords :
        /\ r.start_date <= r.end_date
        /\ EntriesWithin(r.start_date, r.end_date) # {}

\* C38: with an invoice confirmed, every period proposed for a new invoice
\* holds only entries dated after the last confirmed end date, and no entry
\* is dated within the periods of two confirmed invoices.
C38_NoEntryBilledTwice ==
    /\ last_confirmed_invoice # None =>
           \A arg \in NewInvoiceArgs, today \in Dates :
               LET p == NewInvoicePeriod(arg, today)
                   proposed == get_work_entries(work_entries, p.start, p.end)
               IN  \A i \in 1..Len(proposed) :
                       proposed[i].date > last_confirmed_invoice[1].end_date
    /\ \A j \in DOMAIN confirmed_invoices, k \in DOMAIN confirmed_invoices :
           j # k =>
               EntriesWithin(confirmed_invoices[j].start_date,
                             confirmed_invoices[j].end_date)
                   \cap EntriesWithin(confirmed_invoices[k].start_date,
                                      confirmed_invoices[k].end_date) = {}

\* C39: the first invoice to be confirmed starts on the earliest date that
\* has a work entry when it is confirmed.
C39_FirstInvoiceFromEarliest ==
    [][(ConfirmSucceeded' /\ confirmed_invoices = <<>> /\ work_entries # <<>>)
          => get_earliest_entry_date(work_entries')
                 = Some(last_confirmed_invoice'[1].start_date)]_vars

====
